---- MODULE Spec2Model ----
(***************************************************************************)
(* litebeam Sharder: the metadata table `shards`, the Sharder's RWMutex,   *)
(* the single-connection MetaDB pool, and the goroutines that run          *)
(* NewSharder, AssignItemToShard and RemoveItemFromShard.                  *)
(* Goroutine 0 runs NewSharder; goroutines 1..NumProcs are the callers of  *)
(* the constructed Sharder.  Every database round trip is one step.        *)
(***************************************************************************)
EXTENDS Integers, FiniteSets, Sequences, TLC

\* ---------------------------------------------------------------- bounds
MaxShards == 3
MaxSoftCap == 2
NumProcs == 2
MaxAssigns == 4
MaxRemoves == 2
\* Assign calls of the test's configuration: one past SoftCap * MaxDBCount
ScenarioAssigns == 11

Main == 0
Procs == 1..NumProcs
AllProcs == {Main} \cup Procs
None == -1
\* MaxDBCount of the repository's tests
TestMaxDBCount == 5

\* the MaxDBCount values a caller may configure, 0 being invalid
MaxDBCounts == 0..MaxShards \cup {TestMaxDBCount}

\* ids a caller may hand to RemoveItemFromShard; the largest is never registered
IDs == 0..(CHOOSE m \in MaxDBCounts : \A n \in MaxDBCounts : n <= m)

VARIABLES
    env,      \* the run's surroundings, see Environment
    c,        \* the Config argument handed to NewSharder
    cfg,      \* NewSharder's copy of it, stored as Sharder.Config
    phase,    \* "new" | "setup" | "ready" | "failed": progress of NewSharder
    baseDir,  \* the BasePath directory exists
    metaDB,   \* "absent" | "open" | "closed": the meta.db handle
    shards,   \* table shards: shard_id -> [item_count, db_path]
    files,    \* shard_ids whose shard_<id>.db file exists
    mutexW,   \* Sharder.Mutex: goroutine holding the write lock, or None
    mutexR,   \* Sharder.Mutex: goroutines holding the read lock
    conn,     \* goroutine using MetaDB's only connection, or None
    txdb,     \* the table as the open transaction sees it
    pc,       \* position of each goroutine
    loc,      \* locals of each goroutine
    pre,      \* history: the table when the goroutine's current call began,
              \* for a lookup the table its SELECT read
    hist      \* history: counters over the completed calls

vars == <<env, c, cfg, phase, baseDir, metaDB, shards, files, mutexW, mutexR,
          conn, txdb, pc, loc, pre, hist>>

\* ------------------------------------------------------------ the table
EmptyStore == [i \in {} |-> 0]

\* filepath.Join(BasePath, fmt.Sprintf(dbFilePattern, shardID))
DbPath(base, id) == <<base, "shard_", id, ".db">>

Row(n, path) == [item_count |-> n, db_path |-> path]

\* SELECT COUNT(*) FROM shards
CountRows(t) == Cardinality(DOMAIN t)

\* SELECT COUNT(*) FROM shards WHERE shard_id = ?
CountWhereId(t, id) == IF id \in DOMAIN t THEN 1 ELSE 0

\* SELECT MAX(shard_id) FROM shards   (None stands for SQL NULL)
MaxShardId(t) ==
    IF DOMAIN t = {} THEN None
    ELSE CHOOSE m \in DOMAIN t : \A i \in DOMAIN t : i <= m

\* INSERT INTO shards (shard_id, db_path, item_count) VALUES (?, ?, 0)
InsertRow(t, id, path) ==
    [i \in DOMAIN t \cup {id} |-> IF i = id THEN Row(0, path) ELSE t[i]]

\* seeded fault: the UPDATE without its WHERE clause
IncrementCountMut(t, id) ==
    [i \in DOMAIN t |-> [t[i] EXCEPT !.item_count = @ + 1]]

\* UPDATE shards SET item_count = item_count + 1 WHERE shard_id = ?
IncrementCount(t, id) ==
    [i \in DOMAIN t |->
        IF i = id THEN [t[i] EXCEPT !.item_count = @ + 1] ELSE t[i]]

\* seeded fault: the UPDATE without its WHERE clause
SetCountOneMut(t, id) == [i \in DOMAIN t |-> [t[i] EXCEPT !.item_count = 1]]

\* UPDATE shards SET item_count = 1 WHERE shard_id = ?
SetCountOne(t, id) ==
    [i \in DOMAIN t |->
        IF i = id THEN [t[i] EXCEPT !.item_count = 1] ELSE t[i]]

\* seeded fault: the decrement without the clamp
SqlMaxMut(a, b) == a

\* SQL scalar MAX(a, b)
SqlMax(a, b) == IF a >= b THEN a ELSE b

\* seeded fault: the UPDATE without its WHERE clause
DecrementCountMut(t, id) ==
    [i \in DOMAIN t |-> [t[i] EXCEPT !.item_count = SqlMax(@ - 1, 0)]]

\* seeded fault: the clamp at 1 instead of 0
DecrementCountFloorOne(t, id) ==
    [i \in DOMAIN t |->
        IF i = id THEN [t[i] EXCEPT !.item_count = SqlMax(@ - 1, 1)] ELSE t[i]]

\* seeded fault: an upsert, which registers the id when it is missing
DecrementCountUpsert(t, id) ==
    [i \in DOMAIN t \cup {id} |->
        IF i \notin DOMAIN t THEN Row(0, <<>>)
        ELSE IF i = id THEN [t[i] EXCEPT !.item_count = SqlMax(@ - 1, 0)]
        ELSE t[i]]

\* seeded fault: a row whose count is already 0 is deleted
DecrementCountDelete(t, id) ==
    [i \in {j \in DOMAIN t : j # id \/ t[j].item_count > 0} |->
        IF i = id THEN [t[i] EXCEPT !.item_count = SqlMax(@ - 1, 0)] ELSE t[i]]

\* UPDATE shards SET item_count = MAX(item_count - 1, 0) WHERE shard_id = ?
DecrementCount(t, id) ==
    [i \in DOMAIN t |->
        IF i = id THEN [t[i] EXCEPT !.item_count = SqlMax(@ - 1, 0)] ELSE t[i]]

\* first row of ... ORDER BY item_count ASC, shard_id ASC
LeastLoaded(t) ==
    CHOOSE i \in DOMAIN t :
        \A j \in DOMAIN t :
            \/ t[i].item_count < t[j].item_count
            \/ t[i].item_count = t[j].item_count /\ i <= j

\* rows of ... WHERE item_count < ?
RowsBelow(t, cap) == {i \in DOMAIN t : t[i].item_count < cap}

\* seeded fault: the rows ordered by item_count instead of shard_id
FirstBelowMut(t, cap) == LeastLoaded(t)

\* first row of ... WHERE item_count < ? ORDER BY shard_id LIMIT 1
FirstBelow(t, cap) ==
    CHOOSE i \in RowsBelow(t, cap) : \A j \in RowsBelow(t, cap) : i <= j

\* ------------------------------------------------------------ NewSharder
BalancingModes == {"", "fill", "round-robin", "round-robbin"}
GenerationModes == {"", "dynamic", "on-startup", "startup"}

ConfigArgs ==
    [BasePath : {"", "./tests"},
     SoftCap : 0..MaxSoftCap,
     MaxDBCount : MaxDBCounts,
     BalancingMode : BalancingModes,
     GenerationMode : GenerationModes]

\* seeded fault: no default case in the BalancingMode switch
ValidConfigMut(a) ==
    /\ a.BasePath # ""
    /\ a.SoftCap > 0
    /\ a.MaxDBCount > 0
    /\ a.GenerationMode \in {"", "dynamic", "on-startup"}

\* the checks of NewSharder that return an error before anything is created
ValidConfig(a) ==
    /\ a.BasePath # ""
    /\ a.SoftCap > 0
    /\ a.MaxDBCount > 0
    /\ a.GenerationMode \in {"", "dynamic", "on-startup"}
    /\ a.BalancingMode \in {"", "fill", "round-robin"}

\* the two switch statements of NewSharder: "" becomes the default mode
WithDefaults(a) ==
    [a EXCEPT !.GenerationMode = IF @ = "" THEN "dynamic" ELSE @,
              !.BalancingMode = IF @ = "" THEN "fill" ELSE @]

Locals ==
    [targetShardID |-> None, nextShardID |-> None, shardID |-> None,
     ID |-> None, i |-> None, count |-> None, cret |-> "none",
     err |-> FALSE, ret |-> None, op |-> "none", hit |-> FALSE,
     schemaErr |-> FALSE, cleanup |-> FALSE]

\* assigns, removes: calls that returned nil; hits: removes whose UPDATE
\* lowered a count; last: the goroutine that committed last; seq: the counts
\* a one-at-a-time replay of the returned calls gives; runBase, runIds, runN:
\* the Assign calls returned in a row since the counts were last all equal;
\* tripId, tripPre: the id the last call returned and the table it found, if
\* that call was an Assign; trip: the last call was the Remove of that id
History ==
    [assigns |-> 0, removes |-> 0, hits |-> 0, last |-> None,
     seq |-> [i \in IDs |-> 0], runBase |-> None, runIds |-> {}, runN |-> 0,
     tripId |-> None, tripPre |-> EmptyStore, trip |-> FALSE]

\* Config of TestRemoveItemFromShard
TestConfig ==
    [BasePath |-> "./tests", SoftCap |-> 2, MaxDBCount |-> TestMaxDBCount,
     BalancingMode |-> "", GenerationMode |-> "on-startup"]

\* store0: the table NewSharder finds in BasePath; faults: failures the
\* database or the file system may still report; reads: lookups still to be
\* made step by step; restarts: times the Sharder may still be constructed
\* again; assigns, removes: calls the callers make at most
Environment(a) ==
    [store0 |-> EmptyStore, faults |-> 0, reads |-> 0, restarts |-> 0,
     assigns |-> IF a = TestConfig THEN ScenarioAssigns ELSE MaxAssigns,
     removes |-> IF a = TestConfig THEN 0 ELSE MaxRemoves]

\* the state in which NewSharder(c) is called in surroundings e
Start(e) ==
    /\ env = e
    /\ cfg = c
    /\ phase = "new"
    /\ baseDir = (e.store0 # EmptyStore)
    /\ metaDB = "absent"
    /\ shards = e.store0
    /\ files = DOMAIN e.store0
    /\ mutexW = None
    /\ mutexR = {}
    /\ conn = None
    /\ txdb = EmptyStore
    /\ pc = [p \in AllProcs |-> IF p = Main THEN "ns_start" ELSE "idle"]
    /\ loc = [p \in AllProcs |-> Locals]
    /\ pre = [p \in AllProcs |-> EmptyStore]
    /\ hist = History

\* NewSharder over an empty BasePath, a database that never fails
Init ==
    /\ c \in ConfigArgs
    /\ Start(Environment(c))

\* ------------------------------------------------------- step plumbing
Goto(p, l) == pc' = [pc EXCEPT ![p] = l]

\* seeded fault: RLock that does not wait for the writer
CanRLockMut(p) == TRUE

\* seeded fault: Lock that excludes nobody
CanLockMut(p) == TRUE

\* sync.RWMutex.Lock returns only when no writer and no reader holds it
CanLock(p) == mutexW = None /\ mutexR = {}

\* sync.RWMutex.RLock returns only when no writer holds it
CanRLock(p) == mutexW = None

\* db.SetMaxOpenConns(1): a statement or Begin waits for the one connection
ConnFree == conn = None

\* NewSharder, lines 205-266: validation, defaults, MkdirAll, sql.Open of
\* meta.db and initMetadataSchema (CREATE TABLE IF NOT EXISTS keeps the rows)
NewSharderOpen(p) ==
    /\ p = Main /\ pc[p] = "ns_start"
    /\ IF ValidConfig(cfg)
       THEN /\ cfg' = WithDefaults(cfg)
            /\ baseDir' = TRUE
            /\ metaDB' = "open"
            /\ phase' = "setup"
            /\ Goto(p, "su_start")
       ELSE /\ phase' = "failed"
            /\ Goto(p, "ns_done")
            /\ UNCHANGED <<cfg, baseDir, metaDB>>
    /\ UNCHANGED <<env, c, shards, files, mutexW, mutexR, conn, txdb, loc, pre, hist>>

\* setUpShards: the switch on GenerationMode
SetUpShards(p) ==
    /\ p = Main /\ pc[p] = "su_start"
    /\ IF cfg.GenerationMode = "dynamic"
       THEN /\ loc' = [loc EXCEPT ![p].shardID = 0]
            /\ Goto(p, "e_lock")
       ELSE /\ loc' = loc
            /\ Goto(p, "su_count")
    /\ UNCHANGED <<env, c, cfg, phase, baseDir, metaDB, shards, files, mutexW,
                   mutexR, conn, txdb, pre, hist>>

\* ensureShardExists: s.Mutex.Lock()
EnsureLock(p) ==
    /\ pc[p] = "e_lock"
    /\ CanLock(p)
    /\ mutexW' = p
    /\ Goto(p, "e_query")
    /\ UNCHANGED <<env, c, cfg, phase, baseDir, metaDB, shards, files, mutexR,
                   conn, txdb, loc, pre, hist>>

\* ensureShardExists: the existence query, then the call that creates
EnsureQuery(p) ==
    /\ pc[p] = "e_query"
    /\ ConnFree
    /\ IF CountWhereId(shards, loc[p].shardID) = 0
       THEN /\ loc' = [loc EXCEPT ![p].cret = "e_unlock"]
            /\ Goto(p, "c_count")
       ELSE /\ loc' = [loc EXCEPT ![p].err = FALSE]
            /\ Goto(p, "e_unlock")
    /\ UNCHANGED <<env, c, cfg, phase, baseDir, metaDB, shards, files, mutexW,
                   mutexR, conn, txdb, pre, hist>>

\* ensureShardExists: deferred Unlock, return (shardID, nil) or (-1, err)
EnsureUnlock(p) ==
    /\ pc[p] = "e_unlock"
    /\ mutexW' = None
    /\ loc' = [loc EXCEPT ![p].ret = IF loc[p].err THEN -1 ELSE loc[p].shardID,
                          ![p].cret = "none"]
    /\ Goto(p, "su_dyn")
    /\ UNCHANGED <<env, c, cfg, phase, baseDir, metaDB, shards, files, mutexR,
                   conn, txdb, pre, hist>>

\* setUpShards, dynamic: after ensureShardExists(0)
SetUpDynamic(p) ==
    /\ pc[p] = "su_dyn"
    /\ IF loc[p].err
       THEN /\ loc' = loc
            /\ Goto(p, "ns_fail")
       ELSE IF loc[p].ret > 0
       THEN /\ loc' = loc
            /\ Goto(p, "ns_ok")
       ELSE /\ loc' = [loc EXCEPT ![p].shardID = 0, ![p].cret = "su_dyn_ret"]
            /\ Goto(p, "c_count")
    /\ UNCHANGED <<env, c, cfg, phase, baseDir, metaDB, shards, files, mutexW,
                   mutexR, conn, txdb, pre, hist>>

\* setUpShards, dynamic: the result of createAndRegisterNewShard(0)
SetUpDynamicRet(p) ==
    /\ pc[p] = "su_dyn_ret"
    /\ Goto(p, IF loc[p].err THEN "ns_fail" ELSE "ns_ok")
    /\ UNCHANGED <<env, c, cfg, phase, baseDir, metaDB, shards, files, mutexW,
                   mutexR, conn, txdb, loc, pre, hist>>

\* setUpShards, on-startup: GetShardCount (RLock, COUNT(*), RUnlock) and the
\* early return when the table already holds MaxDBCount rows
SetUpCount(p) ==
    /\ pc[p] = "su_count"
    /\ CanRLock(p) /\ ConnFree
    /\ LET n == CountRows(shards) IN
       /\ loc' = [loc EXCEPT ![p].count = n, ![p].i = n]
       /\ Goto(p, IF n >= cfg.MaxDBCount THEN "ns_ok" ELSE "su_loop")
    /\ UNCHANGED <<env, c, cfg, phase, baseDir, metaDB, shards, files, mutexW,
                   mutexR, conn, txdb, pre, hist>>

\* seeded fault: the loop stops one shard early
MoreToCreateMut(i) == i < cfg.MaxDBCount - 1

\* the loop condition i < s.Config.MaxDBCount
MoreToCreate(i) == i < cfg.MaxDBCount

\* setUpShards, on-startup: for i := count; i < MaxDBCount; i++
SetUpLoop(p) ==
    /\ pc[p] = "su_loop"
    /\ IF MoreToCreate(loc[p].i)
       THEN /\ loc' = [loc EXCEPT ![p].shardID = loc[p].i,
                                 ![p].cret = "su_loop_ret"]
            /\ Goto(p, "c_count")
       ELSE /\ loc' = loc
            /\ Goto(p, "ns_ok")
    /\ UNCHANGED <<env, c, cfg, phase, baseDir, metaDB, shards, files, mutexW,
                   mutexR, conn, txdb, pre, hist>>

\* setUpShards, on-startup: the result of createAndRegisterNewShard(i)
SetUpLoopRet(p) ==
    /\ pc[p] = "su_loop_ret"
    /\ IF loc[p].err
       THEN /\ loc' = loc
            /\ Goto(p, "ns_fail")
       ELSE /\ loc' = [loc EXCEPT ![p].i = @ + 1]
            /\ Goto(p, "su_loop")
    /\ UNCHANGED <<env, c, cfg, phase, baseDir, metaDB, shards, files, mutexW,
                   mutexR, conn, txdb, pre, hist>>

\* NewSharder: setUpShards failed, db.Close() and return the error
NewSharderFail(p) ==
    /\ pc[p] = "ns_fail"
    /\ metaDB' = "closed"
    /\ phase' = "failed"
    /\ loc' = [loc EXCEPT ![p] = Locals]
    /\ Goto(p, "ns_done")
    /\ UNCHANGED <<env, c, cfg, baseDir, shards, files, mutexW, mutexR, conn,
                   txdb, pre, hist>>

\* NewSharder: return s, nil
NewSharderOk(p) ==
    /\ pc[p] = "ns_ok"
    /\ phase' = "ready"
    /\ loc' = [loc EXCEPT ![p] = Locals]
    /\ Goto(p, "ns_done")
    /\ UNCHANGED <<env, c, cfg, baseDir, metaDB, shards, files, mutexW, mutexR,
                   conn, txdb, pre, hist>>

\* ------------------------------------------- createAndRegisterNewShard
\* seeded fault: the check off by one
AtMaxCountMut(n) == n > cfg.MaxDBCount

\* the check that refuses to go past MaxDBCount
AtMaxCount(n) == n >= cfg.MaxDBCount

\* SELECT COUNT(*) FROM shards and the maximum check
CreateCount(p) ==
    /\ pc[p] = "c_count"
    /\ ConnFree
    /\ IF AtMaxCount(CountRows(shards))
       THEN /\ loc' = [loc EXCEPT ![p].err = TRUE]
            /\ Goto(p, loc[p].cret)
       ELSE /\ loc' = loc
            /\ Goto(p, "c_exists")
    /\ UNCHANGED <<env, c, cfg, phase, baseDir, metaDB, shards, files, mutexW,
                   mutexR, conn, txdb, pre, hist>>

\* the re-check that the shard_id is not registered yet
CreateExists(p) ==
    /\ pc[p] = "c_exists"
    /\ ConnFree
    /\ IF CountWhereId(shards, loc[p].shardID) > 0
       THEN /\ loc' = [loc EXCEPT ![p].err = FALSE]
            /\ Goto(p, loc[p].cret)
       ELSE /\ loc' = loc
            /\ Goto(p, "c_open")
    /\ UNCHANGED <<env, c, cfg, phase, baseDir, metaDB, shards, files, mutexW,
                   mutexR, conn, txdb, pre, hist>>

\* sql.Open and Ping create shard_<id>.db; InitSchemaFunc, if any, runs on it
CreateOpen(p) ==
    /\ pc[p] = "c_open"
    /\ files' = files \cup {loc[p].shardID}
    /\ Goto(p, "c_begin")
    /\ UNCHANGED <<env, c, cfg, phase, baseDir, metaDB, shards, mutexW, mutexR,
                   conn, txdb, loc, pre, hist>>

\* tx, err := s.MetaDB.Begin()
CreateBegin(p) ==
    /\ pc[p] = "c_begin"
    /\ ConnFree
    /\ conn' = p
    /\ txdb' = shards
    /\ Goto(p, "c_insert")
    /\ UNCHANGED <<env, c, cfg, phase, baseDir, metaDB, shards, files, mutexW,
                   mutexR, loc, pre, hist>>

\* tx.Exec(INSERT ...): a second row with the same primary key is an error,
\* and the deferred tx.Rollback() gives the connection back
CreateInsert(p) ==
    /\ pc[p] = "c_insert"
    /\ IF loc[p].shardID \in DOMAIN txdb
       THEN /\ conn' = None
            /\ txdb' = EmptyStore
            /\ loc' = [loc EXCEPT ![p].err = TRUE]
            /\ Goto(p, loc[p].cret)
       ELSE /\ txdb' = InsertRow(txdb, loc[p].shardID,
                                 DbPath(cfg.BasePath, loc[p].shardID))
            /\ conn' = conn
            /\ loc' = loc
            /\ Goto(p, "c_commit")
    /\ UNCHANGED <<env, c, cfg, phase, baseDir, metaDB, shards, files, mutexW,
                   mutexR, pre, hist>>

\* tx.Commit() and return nil
CreateCommit(p) ==
    /\ pc[p] = "c_commit"
    /\ shards' = txdb
    /\ conn' = None
    /\ txdb' = EmptyStore
    /\ loc' = [loc EXCEPT ![p].err = FALSE]
    /\ Goto(p, loc[p].cret)
    /\ UNCHANGED <<env, c, cfg, phase, baseDir, metaDB, files, mutexW, mutexR,
                   pre, hist>>

Construct(p) ==
    \/ NewSharderOpen(p) \/ SetUpShards(p) \/ EnsureLock(p) \/ EnsureQuery(p)
    \/ EnsureUnlock(p) \/ SetUpDynamic(p) \/ SetUpDynamicRet(p)
    \/ SetUpCount(p) \/ SetUpLoop(p) \/ SetUpLoopRet(p)
    \/ NewSharderFail(p) \/ NewSharderOk(p)

Create(p) ==
    \/ CreateCount(p) \/ CreateExists(p) \/ CreateOpen(p) \/ CreateBegin(p)
    \/ CreateInsert(p) \/ CreateCommit(p)

\* ---------------------------------------------------- AssignItemToShard
InFlight(o) == Cardinality({q \in Procs : loc[q].op = o})

AllEqual(t) == \A i, j \in DOMAIN t : t[i].item_count = t[j].item_count

\* s.Mutex.Lock() at the head of AssignItemToShard
AssignLock(p) ==
    /\ p \in Procs /\ pc[p] = "idle" /\ phase = "ready" /\ metaDB = "open"
    /\ hist.assigns + InFlight("assign") < env.assigns
    /\ CanLock(p)
    /\ mutexW' = p
    /\ loc' = [loc EXCEPT ![p].op = "assign"]
    /\ pre' = [pre EXCEPT ![p] = shards]
    /\ Goto(p, "a_begin")
    /\ UNCHANGED <<env, c, cfg, phase, baseDir, metaDB, shards, files, mutexR,
                   conn, txdb, hist>>

\* tx, err := s.MetaDB.Begin()
AssignBegin(p) ==
    /\ pc[p] = "a_begin"
    /\ ConnFree
    /\ conn' = p
    /\ txdb' = shards
    /\ Goto(p, "a_select")
    /\ UNCHANGED <<env, c, cfg, phase, baseDir, metaDB, shards, files, mutexW,
                   mutexR, loc, pre, hist>>

\* seeded fault: no tx.Rollback() before the work outside the transaction
RolledBackMut(p) == p

\* the holder of the connection after the explicit tx.Rollback()
RolledBack(p) == None

\* case "fill": the SELECT inside tx; on sql.ErrNoRows tx.Rollback()
SelectFill(p) ==
    IF RowsBelow(txdb, cfg.SoftCap) # {}
    THEN /\ loc' = [loc EXCEPT
                      ![p].targetShardID = FirstBelow(txdb, cfg.SoftCap)]
         /\ Goto(p, "a_update")
         /\ UNCHANGED <<conn, txdb>>
    ELSE /\ conn' = RolledBack(p)
         /\ txdb' = IF RolledBack(p) = None THEN EmptyStore ELSE txdb
         /\ loc' = loc
         /\ Goto(p, "a_maxid")

\* seeded fault: ORDER BY shard_id alone
RoundRobinTargetMut(t) == CHOOSE i \in DOMAIN t : \A j \in DOMAIN t : i <= j

\* the row of SELECT shard_id FROM shards ORDER BY item_count ASC,
\* shard_id ASC LIMIT 1
RoundRobinTarget(t) == LeastLoaded(t)

\* seeded fault: round-robin treated like fill
SelectRoundRobinMut(p) == SelectFill(p)

\* case "round-robin": the SELECT inside tx; no row is an error
SelectRoundRobin(p) ==
    IF DOMAIN txdb = {}
    THEN /\ conn' = None
         /\ txdb' = EmptyStore
         /\ loc' = [loc EXCEPT ![p].err = TRUE]
         /\ Goto(p, "a_ret")
    ELSE /\ loc' = [loc EXCEPT ![p].targetShardID = RoundRobinTarget(txdb)]
         /\ Goto(p, "a_update")
         /\ UNCHANGED <<conn, txdb>>

\* switch s.Config.BalancingMode
AssignSelect(p) ==
    /\ pc[p] = "a_select"
    /\ IF cfg.BalancingMode = "round-robin" THEN SelectRoundRobin(p)
       ELSE IF cfg.BalancingMode = "fill" THEN SelectFill(p)
       ELSE /\ loc' = [loc EXCEPT ![p].err = TRUE]
            /\ Goto(p, "a_ret")
            /\ UNCHANGED <<conn, txdb>>
    /\ UNCHANGED <<env, c, cfg, phase, baseDir, metaDB, shards, files, mutexW,
                   mutexR, pre, hist>>

\* the history after the commit of an Assign that returns id r
AssignReturned(h, p, r) ==
    LET fresh == DOMAIN shards # {} /\ AllEqual(shards) IN
    [h EXCEPT !.assigns = @ + 1,
              !.last = p,
              !.seq = [@ EXCEPT ![r] = @ + 1],
              !.runBase = IF fresh
                          THEN shards[CHOOSE i \in DOMAIN shards : TRUE].item_count
                          ELSE @,
              !.runIds = IF fresh THEN {r}
                         ELSE IF h.runN > 0 THEN @ \cup {r} ELSE @,
              !.runN = IF fresh THEN 1 ELSE IF h.runN > 0 THEN @ + 1 ELSE @,
              !.tripId = r, !.tripPre = pre[p], !.trip = FALSE]

\* tx.Exec(UPDATE ... item_count + 1) on the shard the SELECT found
AssignUpdate(p) ==
    /\ pc[p] = "a_update"
    /\ txdb' = IncrementCount(txdb, loc[p].targetShardID)
    /\ Goto(p, "a_commit")
    /\ UNCHANGED <<env, c, cfg, phase, baseDir, metaDB, shards, files, mutexW,
                   mutexR, conn, loc, pre, hist>>

\* tx.Commit() and return targetShardID, nil
AssignCommit(p) ==
    /\ pc[p] = "a_commit"
    /\ shards' = txdb
    /\ conn' = None
    /\ txdb' = EmptyStore
    /\ loc' = [loc EXCEPT ![p].ret = loc[p].targetShardID]
    /\ hist' = AssignReturned(hist, p, loc[p].targetShardID)
    /\ Goto(p, "a_ret")
    /\ UNCHANGED <<env, c, cfg, phase, baseDir, metaDB, files, mutexW, mutexR,
                   pre>>

\* seeded fault: the ceiling test one shard early
ExhaustedMut(next) == next > cfg.MaxDBCount - 2

\* nextShardID > s.Config.MaxDBCount-1
Exhausted(next) == next > cfg.MaxDBCount - 1

\* seeded fault: the next id skips one
NextShardIDMut(maxID) == IF maxID # None THEN maxID + 2 ELSE 0

\* nextShardID := 0; if maxID.Valid { nextShardID = int(maxID.Int64) + 1 }
NextShardID(maxID) == IF maxID # None THEN maxID + 1 ELSE 0

\* SELECT MAX(shard_id), nextShardID and the choice between saturating an
\* existing shard and calling createAndRegisterNewShard(nextShardID)
AssignMaxId(p) ==
    /\ pc[p] = "a_maxid"
    /\ ConnFree
    /\ LET next == NextShardID(MaxShardId(shards))
       IN IF Exhausted(next)
          THEN /\ loc' = [loc EXCEPT ![p].nextShardID = next]
               /\ Goto(p, "a_ex_select")
          ELSE /\ loc' = [loc EXCEPT ![p].nextShardID = next,
                                    ![p].shardID = next,
                                    ![p].cret = "a_new_begin"]
               /\ Goto(p, "c_count")
    /\ UNCHANGED <<env, c, cfg, phase, baseDir, metaDB, shards, files, mutexW,
                   mutexR, conn, txdb, pre, hist>>

\* seeded fault: ORDER BY shard_id alone
ExhaustedTargetMut(t) == CHOOSE i \in DOMAIN t : \A j \in DOMAIN t : i <= j

\* the row QueryRow scans from SELECT shard_id ... ORDER BY item_count ASC,
\* shard_id ASC when the shards are exhausted
ExhaustedTarget(t) == LeastLoaded(t)

\* shards exhausted: pick the target with s.MetaDB.QueryRow
AssignExhaustedSelect(p) ==
    /\ pc[p] = "a_ex_select"
    /\ ConnFree
    /\ IF DOMAIN shards = {}
       THEN /\ loc' = [loc EXCEPT ![p].err = TRUE]
            /\ Goto(p, "a_ret")
       ELSE /\ loc' = [loc EXCEPT ![p].targetShardID = ExhaustedTarget(shards)]
            /\ Goto(p, "a_ex_begin")
    /\ UNCHANGED <<env, c, cfg, phase, baseDir, metaDB, shards, files, mutexW,
                   mutexR, conn, txdb, pre, hist>>

\* shards exhausted: txUpdate, errUpdate := s.MetaDB.Begin()
AssignExhaustedBegin(p) ==
    /\ pc[p] = "a_ex_begin"
    /\ ConnFree
    /\ conn' = p
    /\ txdb' = shards
    /\ Goto(p, "a_ex_update")
    /\ UNCHANGED <<env, c, cfg, phase, baseDir, metaDB, shards, files, mutexW,
                   mutexR, loc, pre, hist>>

\* shards exhausted: txUpdate.Exec(UPDATE ... item_count + 1)
AssignExhaustedUpdate(p) ==
    /\ pc[p] = "a_ex_update"
    /\ txdb' = IncrementCount(txdb, loc[p].targetShardID)
    /\ Goto(p, "a_ex_commit")
    /\ UNCHANGED <<env, c, cfg, phase, baseDir, metaDB, shards, files, mutexW,
                   mutexR, conn, loc, pre, hist>>

\* shards exhausted: txUpdate.Commit() and return targetShardID, nil
AssignExhaustedCommit(p) ==
    /\ pc[p] = "a_ex_commit"
    /\ shards' = txdb
    /\ conn' = None
    /\ txdb' = EmptyStore
    /\ loc' = [loc EXCEPT ![p].ret = loc[p].targetShardID]
    /\ hist' = AssignReturned(hist, p, loc[p].targetShardID)
    /\ Goto(p, "a_ret")
    /\ UNCHANGED <<env, c, cfg, phase, baseDir, metaDB, files, mutexW, mutexR,
                   pre>>

\* after createAndRegisterNewShard: return its error, or Begin txUpdate
AssignNewBegin(p) ==
    /\ pc[p] = "a_new_begin"
    /\ \/ /\ loc[p].err
          /\ Goto(p, "a_ret")
          /\ UNCHANGED <<conn, txdb>>
       \/ /\ ~loc[p].err
          /\ ConnFree
          /\ conn' = p
          /\ txdb' = shards
          /\ Goto(p, "a_new_update")
    /\ UNCHANGED <<env, c, cfg, phase, baseDir, metaDB, shards, files, mutexW,
                   mutexR, loc, pre, hist>>

\* txUpdate.Exec(UPDATE shards SET item_count = 1 WHERE shard_id = next)
AssignNewUpdate(p) ==
    /\ pc[p] = "a_new_update"
    /\ txdb' = SetCountOne(txdb, loc[p].nextShardID)
    /\ Goto(p, "a_new_commit")
    /\ UNCHANGED <<env, c, cfg, phase, baseDir, metaDB, shards, files, mutexW,
                   mutexR, conn, loc, pre, hist>>

\* txUpdate.Commit(), targetShardID = nextShardID, return it
AssignNewCommit(p) ==
    /\ pc[p] = "a_new_commit"
    /\ shards' = txdb
    /\ conn' = None
    /\ txdb' = EmptyStore
    /\ loc' = [loc EXCEPT ![p].targetShardID = loc[p].nextShardID,
                          ![p].ret = loc[p].nextShardID]
    /\ hist' = AssignReturned(hist, p, loc[p].nextShardID)
    /\ Goto(p, "a_ret")
    /\ UNCHANGED <<env, c, cfg, phase, baseDir, metaDB, files, mutexW, mutexR,
                   pre>>

\* the deferred tx.Rollback() and s.Mutex.Unlock(); the call returns
AssignReturn(p) ==
    /\ pc[p] = "a_ret"
    /\ conn' = IF conn = p THEN None ELSE conn
    /\ txdb' = IF conn = p THEN EmptyStore ELSE txdb
    /\ mutexW' = None
    /\ loc' = [loc EXCEPT ![p] = Locals]
    /\ pre' = [pre EXCEPT ![p] = EmptyStore]
    /\ Goto(p, "idle")
    /\ UNCHANGED <<env, c, cfg, phase, baseDir, metaDB, shards, files, mutexR, hist>>

\* -------------------------------------------------- RemoveItemFromShard
\* s.Mutex.Lock() at the head of RemoveItemFromShard(ID)
RemoveLock(p) ==
    /\ p \in Procs /\ pc[p] = "idle" /\ phase = "ready" /\ metaDB = "open"
    /\ hist.removes + InFlight("remove") < env.removes
    /\ CanLock(p)
    /\ \E id \in IDs : loc' = [loc EXCEPT ![p].op = "remove", ![p].ID = id]
    /\ mutexW' = p
    /\ pre' = [pre EXCEPT ![p] = shards]
    /\ Goto(p, "r_begin")
    /\ UNCHANGED <<env, c, cfg, phase, baseDir, metaDB, shards, files, mutexR,
                   conn, txdb, hist>>

\* txUpdate, errUpdate := s.MetaDB.Begin()
RemoveBegin(p) ==
    /\ pc[p] = "r_begin"
    /\ ConnFree
    /\ conn' = p
    /\ txdb' = shards
    /\ Goto(p, "r_update")
    /\ UNCHANGED <<env, c, cfg, phase, baseDir, metaDB, shards, files, mutexW,
                   mutexR, loc, pre, hist>>

\* txUpdate.Exec(UPDATE ... MAX(item_count - 1, 0) WHERE shard_id = ID)
RemoveUpdate(p) ==
    /\ pc[p] = "r_update"
    /\ txdb' = DecrementCount(txdb, loc[p].ID)
    /\ loc' = [loc EXCEPT ![p].hit = txdb' # txdb]
    /\ Goto(p, "r_commit")
    /\ UNCHANGED <<env, c, cfg, phase, baseDir, metaDB, shards, files, mutexW,
                   mutexR, conn, pre, hist>>

\* the history after the commit of a Remove(id)
RemoveReturned(h, p, id, hit) ==
    [h EXCEPT !.removes = @ + 1,
              !.hits = IF hit THEN @ + 1 ELSE @,
              !.last = p,
              !.seq = [@ EXCEPT ![id] = IF @ - 1 >= 0 THEN @ - 1 ELSE 0],
              !.runBase = None, !.runIds = {}, !.runN = 0,
              !.tripId = None, !.trip = (h.tripId = id),
              !.tripPre = IF h.tripId = id THEN @ ELSE EmptyStore]

\* txUpdate.Commit() and return nil
RemoveCommit(p) ==
    /\ pc[p] = "r_commit"
    /\ shards' = txdb
    /\ conn' = None
    /\ txdb' = EmptyStore
    /\ hist' = RemoveReturned(hist, p, loc[p].ID, loc[p].hit)
    /\ Goto(p, "r_ret")
    /\ UNCHANGED <<env, c, cfg, phase, baseDir, metaDB, files, mutexW, mutexR,
                   loc, pre>>

\* the deferred txUpdate.Rollback() and s.Mutex.Unlock(); the call returns
RemoveReturn(p) ==
    /\ pc[p] = "r_ret"
    /\ conn' = IF conn = p THEN None ELSE conn
    /\ txdb' = IF conn = p THEN EmptyStore ELSE txdb
    /\ mutexW' = None
    /\ loc' = [loc EXCEPT ![p] = Locals]
    /\ pre' = [pre EXCEPT ![p] = EmptyStore]
    /\ Goto(p, "idle")
    /\ UNCHANGED <<env, c, cfg, phase, baseDir, metaDB, shards, files, mutexR, hist>>

Assign(p) ==
    \/ AssignLock(p) \/ AssignBegin(p) \/ AssignSelect(p) \/ AssignUpdate(p)
    \/ AssignCommit(p) \/ AssignMaxId(p) \/ AssignExhaustedSelect(p)
    \/ AssignExhaustedBegin(p) \/ AssignExhaustedUpdate(p)
    \/ AssignExhaustedCommit(p) \/ AssignNewBegin(p) \/ AssignNewUpdate(p)
    \/ AssignNewCommit(p) \/ AssignReturn(p)

Remove(p) ==
    \/ RemoveLock(p) \/ RemoveBegin(p) \/ RemoveUpdate(p) \/ RemoveCommit(p)
    \/ RemoveReturn(p)

\* GetDB, GetItemCount, GetTotalItemCount, GetShardCount: RLock, one SELECT on
\* the only connection, RUnlock; the rows are read and none is written
Lookup(p) ==
    /\ p \in Procs /\ pc[p] = "idle" /\ phase = "ready" /\ metaDB = "open"
    /\ CanRLock(p) /\ ConnFree
    /\ UNCHANGED vars

\* Close: s.MetaDB.Close(), called once no call is in progress; the calls
\* made on a closed Sharder are left out
Close(p) ==
    /\ p \in Procs /\ phase = "ready" /\ metaDB = "open"
    /\ \A q \in Procs : pc[q] = "idle"
    /\ metaDB' = "closed"
    /\ UNCHANGED <<env, c, cfg, phase, baseDir, shards, files, mutexW, mutexR,
                   conn, txdb, pc, loc, pre, hist>>

Next ==
    \E p \in AllProcs :
        \/ Construct(p) \/ Create(p) \/ Assign(p) \/ Remove(p)
        \/ Lookup(p) \/ Close(p)

Spec == Init /\ [][Next]_vars

\* ------------------------------------------- NewSharder over any store
\* bounds of the stores NewSharder may find
MaxStoreShards == 3
MaxStoreCount == 2

\* the tables an earlier Sharder over the same BasePath can have left:
\* ids 0 .. n-1, item_count >= 0, the paths of createAndRegisterNewShard
Stores ==
    UNION {{[i \in 0..(n - 1) |-> Row(f[i], DbPath("./tests", i))] :
                f \in [0..(n - 1) -> 0..MaxStoreCount]} :
           n \in 0..MaxStoreShards}

InitStore ==
    /\ c \in ConfigArgs
    /\ \E s \in Stores :
          Start([store0 |-> s, faults |-> 0, reads |-> 0, restarts |-> 0,
                 assigns |-> 0, removes |-> 0])

\* the constructor alone
NextStore == \E p \in AllProcs : Construct(p) \/ Create(p)

SpecStore == InitStore /\ [][NextStore]_vars

\* ------------------------------------------------- lookups step by step
\* calls made in the runs with lookups or failures
FewAssigns == 2
FewRemoves == 1
MaxReads == 1

\* s.Mutex.RLock() at the head of GetItemCount, GetTotalItemCount,
\* GetShardCount and GetDB
ReadLock(p) ==
    /\ p \in Procs /\ pc[p] = "idle" /\ phase = "ready" /\ metaDB = "open"
    /\ env.reads > 0
    /\ CanRLock(p)
    /\ env' = [env EXCEPT !.reads = @ - 1]
    /\ mutexR' = mutexR \cup {p}
    /\ loc' = [loc EXCEPT ![p].op = "read"]
    /\ Goto(p, "g_query")
    /\ UNCHANGED <<c, cfg, phase, baseDir, metaDB, shards, files, mutexW,
                   conn, txdb, pre, hist>>

\* s.MetaDB.QueryRow(SELECT ...).Scan on the only connection
ReadQuery(p) ==
    /\ pc[p] = "g_query"
    /\ ConnFree
    /\ pre' = [pre EXCEPT ![p] = shards]
    /\ Goto(p, "g_ret")
    /\ UNCHANGED <<env, c, cfg, phase, baseDir, metaDB, shards, files, mutexW,
                   mutexR, conn, txdb, loc, hist>>

\* s.Mutex.RUnlock(), deferred or explicit; the lookup returns
ReadUnlock(p) ==
    /\ pc[p] = "g_ret"
    /\ mutexR' = mutexR \ {p}
    /\ loc' = [loc EXCEPT ![p] = Locals]
    /\ pre' = [pre EXCEPT ![p] = EmptyStore]
    /\ Goto(p, "idle")
    /\ UNCHANGED <<env, c, cfg, phase, baseDir, metaDB, shards, files, mutexW,
                   conn, txdb, hist>>

Read(p) == ReadLock(p) \/ ReadQuery(p) \/ ReadUnlock(p)

InitRead ==
    /\ c \in ConfigArgs
    /\ c.MaxDBCount <= MaxShards
    /\ Start([store0 |-> EmptyStore, faults |-> 0, reads |-> MaxReads,
              restarts |-> 0, assigns |-> FewAssigns, removes |-> FewRemoves])

NextRead == Next \/ \E p \in AllProcs : Read(p)

\* the Sharder with lookups that run beside the calls
SpecRead == InitRead /\ [][NextRead]_vars

\* -------------------------------------------------- database failures
\* failures a run may meet
MaxFaults == 2

\* Begin, QueryRow(...).Scan, Exec and Commit calls, by position
BeginSteps == {"a_begin", "a_ex_begin", "a_new_begin", "r_begin", "c_begin"}
QuerySteps ==
    {"a_select", "a_maxid", "a_ex_select", "c_count", "c_exists", "e_query",
     "su_count", "g_query"}
ExecSteps == {"a_update", "a_ex_update", "a_new_update", "r_update", "c_insert"}
CommitSteps ==
    {"a_commit", "a_ex_commit", "a_new_commit", "r_commit", "c_commit"}

\* where the `if err != nil { return ... }` after the call at pc[p] leads
OnError(p) ==
    CASE pc[p] \in {"r_begin", "r_update", "r_commit"} -> "r_ret"
      [] pc[p] \in {"c_count", "c_exists", "c_open", "c_cleanup", "c_begin",
                    "c_insert", "c_commit"} -> loc[p].cret
      [] pc[p] = "e_query" -> "e_unlock"
      [] pc[p] = "su_count" -> "ns_fail"
      [] pc[p] = "g_query" -> "g_ret"
      [] OTHER -> "a_ret"

\* the call at pc[p] returns an error: nothing it attempted is applied, the
\* transaction, if one is open, is rolled back, and the function returns
Fails(p) ==
    /\ env.faults > 0
    /\ env' = [env EXCEPT !.faults = @ - 1]
    /\ loc' = [loc EXCEPT ![p].err = TRUE]
    /\ conn' = IF conn = p THEN None ELSE conn
    /\ txdb' = IF conn = p THEN EmptyStore ELSE txdb
    /\ Goto(p, OnError(p))
    /\ UNCHANGED <<c, cfg, phase, baseDir, metaDB, shards, files, mutexW,
                   mutexR, pre, hist>>

\* s.MetaDB.Begin() returns an error
BeginFails(p) ==
    /\ pc[p] \in BeginSteps
    /\ pc[p] = "a_new_begin" => ~loc[p].err
    /\ Fails(p)

\* QueryRow(...).Scan returns an error other than sql.ErrNoRows
QueryFails(p) == pc[p] \in QuerySteps /\ Fails(p)

\* tx.Exec returns an error
ExecFails(p) == pc[p] \in ExecSteps /\ Fails(p)

\* tx.Commit() returns an error and the transaction is rolled back
CommitFails(p) == pc[p] \in CommitSteps /\ Fails(p)

\* sql.Open or Ping returns an error: no file is there and none is removed
CreateOpenFails(p) == pc[p] = "c_open" /\ Fails(p)

\* seeded fault: the callback's error is not looked at
SchemaErrorStepMut == "c_begin"

\* the branch taken when InitSchemaFunc returns an error
SchemaErrorStep == "c_cleanup"

\* sql.Open and Ping create shard_<id>.db and InitSchemaFunc returns an error
InitSchemaFails(p) ==
    /\ pc[p] = "c_open"
    /\ env.faults > 0
    /\ env' = [env EXCEPT !.faults = @ - 1]
    /\ files' = files \cup {loc[p].shardID}
    /\ loc' = [loc EXCEPT ![p].schemaErr = TRUE]
    /\ Goto(p, SchemaErrorStep)
    /\ UNCHANGED <<c, cfg, phase, baseDir, metaDB, shards, mutexW, mutexR,
                   conn, txdb, pre, hist>>

\* _ = os.Remove(dbPath) removes the file; the callback's error is returned
CreateCleanup(p) ==
    /\ pc[p] = "c_cleanup"
    /\ files' = files \ {loc[p].shardID}
    /\ loc' = [loc EXCEPT ![p].cleanup = TRUE, ![p].err = TRUE]
    /\ Goto(p, loc[p].cret)
    /\ UNCHANGED <<env, c, cfg, phase, baseDir, metaDB, shards, mutexW,
                   mutexR, conn, txdb, pre, hist>>

\* os.Remove(dbPath) fails and its error is dropped: the file stays
CleanupFails(p) ==
    /\ pc[p] = "c_cleanup"
    /\ env.faults > 0
    /\ env' = [env EXCEPT !.faults = @ - 1]
    /\ loc' = [loc EXCEPT ![p].cleanup = TRUE, ![p].err = TRUE]
    /\ Goto(p, loc[p].cret)
    /\ UNCHANGED <<c, cfg, phase, baseDir, metaDB, shards, files, mutexW,
                   mutexR, conn, txdb, pre, hist>>

Fault(p) ==
    \/ BeginFails(p) \/ QueryFails(p) \/ ExecFails(p) \/ CommitFails(p)
    \/ CreateOpenFails(p) \/ InitSchemaFails(p) \/ CreateCleanup(p)
    \/ CleanupFails(p)

InitFault ==
    /\ c \in ConfigArgs
    /\ c.MaxDBCount <= MaxShards
    /\ Start([store0 |-> EmptyStore, faults |-> MaxFaults, reads |-> 0,
              restarts |-> 0, assigns |-> FewAssigns, removes |-> FewRemoves])

NextFault == Next \/ \E p \in AllProcs : Fault(p)

\* the Sharder over a database whose calls may fail
SpecFault == InitFault /\ [][NextFault]_vars

\* ------------------------------------------------------ construct again
MaxRestarts == 1

\* the program ends with no call running and starts again: NewSharder is
\* called with the same Config over the BasePath the earlier Sharder left
NewSharderAgain(p) ==
    /\ p = Main /\ pc[p] = "ns_done" /\ phase = "ready"
    /\ \A q \in Procs : pc[q] = "idle"
    /\ env.restarts > 0
    /\ env' = [env EXCEPT !.restarts = @ - 1, !.store0 = shards]
    /\ cfg' = c
    /\ phase' = "new"
    /\ metaDB' = "absent"
    /\ Goto(p, "ns_start")
    /\ UNCHANGED <<c, baseDir, shards, files, mutexW, mutexR, conn, txdb, loc,
                   pre, hist>>

InitAgain ==
    /\ c \in ConfigArgs
    /\ c.MaxDBCount <= MaxShards
    /\ Start([store0 |-> EmptyStore, faults |-> 0, reads |-> 0,
              restarts |-> MaxRestarts, assigns |-> FewAssigns,
              removes |-> FewRemoves])

NextAgain == Next \/ \E p \in AllProcs : NewSharderAgain(p)

\* the Sharder used, then constructed again over what it left
SpecAgain == InitAgain /\ [][NextAgain]_vars

\* ----------------------------------------------------------- scheduling
InitLive ==
    /\ c \in ConfigArgs
    /\ c.MaxDBCount <= MaxShards
    /\ Start([store0 |-> EmptyStore, faults |-> MaxFaults, reads |-> MaxReads,
              restarts |-> 0, assigns |-> FewAssigns, removes |-> FewRemoves])

NextLive == Next \/ \E p \in AllProcs : Read(p) \/ Fault(p)

\* a step of a goroutine that is inside NewSharder or inside a call
Step(p) ==
    /\ pc[p] # "idle"
    /\ \/ Construct(p) \/ Create(p) \/ Assign(p) \/ Remove(p)
       \/ Read(p) \/ Fault(p)

\* the Go scheduler lets every goroutine that can run take its next step
Fairness == \A p \in AllProcs : WF_vars(Step(p))

\* the Sharder with lookups and failures, every goroutine scheduled
SpecLive == InitLive /\ [][NextLive]_vars /\ Fairness

\* ------------------------------------------------------------- lookups
\* GetItemCount: item_count of the shard, or the not-found error
GetItemCount(t, id) ==
    IF id \in DOMAIN t THEN [val |-> t[id].item_count, err |-> FALSE]
    ELSE [val |-> 0, err |-> TRUE]

RECURSIVE SumRows(_, _)
\* SQL SUM(item_count) over the rows S
SumRows(t, S) ==
    IF S = {} THEN 0
    ELSE LET i == CHOOSE x \in S : TRUE
         IN t[i].item_count + SumRows(t, S \ {i})

\* GetTotalItemCount: SUM(item_count), with NULL (no rows) returned as 0
GetTotalItemCount(t) == IF DOMAIN t = {} THEN 0 ELSE SumRows(t, DOMAIN t)

\* GetShardCount: SELECT COUNT(*) FROM shards
GetShardCount(t) == CountRows(t)

\* GetDB: the handle on the file at db_path, or the not-found error
GetDB(t, id) ==
    IF id \in DOMAIN t THEN [db |-> t[id].db_path, err |-> FALSE]
    ELSE [db |-> <<>>, err |-> TRUE]

\* GetShard: two GetDB calls, Reader and Writer
GetShard(t, id) ==
    [Reader |-> GetDB(t, id).db, Writer |-> GetDB(t, id).db,
     err |-> GetDB(t, id).err]

\* GetAllShards: GetShardCount on the table tc, then GetShard(i) for i in
\* range count on the table t the lookups find; the locks are taken per call
GetAllShards(tc, t) ==
    LET count == GetShardCount(tc) IN
    [m |-> [i \in {j \in 0..(count - 1) : ~GetShard(t, j).err}
                |-> GetShard(t, i)],
     err |-> \E i \in 0..(count - 1) : GetShard(t, i).err]

\* ------------------------------------------------------------- claims
\* every caller is between calls on a constructed Sharder
Quiescent == phase = "ready" /\ \A p \in Procs : pc[p] = "idle"

CountOf(t, id) == IF id \in DOMAIN t THEN t[id].item_count ELSE 0

RECURSIVE SumOfGetItemCount(_, _)
SumOfGetItemCount(t, S) ==
    IF S = {} THEN 0
    ELSE LET i == CHOOSE x \in S : TRUE
         IN GetItemCount(t, i).val + SumOfGetItemCount(t, S \ {i})

\* C1: with any number of goroutines calling AssignItemToShard and
\* RemoveItemFromShard, no update is lost: once the calls have returned, every
\* shard's item_count is what replaying the same calls one after another gives
\* (each Assign adds 1 to the shard it returned, each Remove subtracts 1,
\* floored at 0).
C1_NoLostUpdate ==
    Quiescent => \A id \in IDs : CountOf(shards, id) = hist.seq[id]

\* C1 witness: after Assigns and a Remove, one goroutine holds the lock for
\* an Assign that follows a call committed by another goroutine
C1_Witness ==
    \E p, q \in Procs :
        /\ p # q
        /\ pc[p] = "a_begin" /\ hist.last = q
        /\ hist.removes >= 1
        /\ \E id \in DOMAIN shards : shards[id].item_count >= 2

\* C2 as stated: the total equals the number of successful Assign calls minus
\* the number of successful Remove calls
C2_Original ==
    Quiescent => GetTotalItemCount(shards) = hist.assigns - hist.removes

\* C2 amended: after any sequence of completed calls on a Sharder built over
\* an empty store, GetTotalItemCount() equals the sum of GetItemCount(id) over
\* the registered shards, and equals the successful Assign calls minus the
\* Remove calls that found their shard registered with item_count > 0.
C2_TotalIsNetOfEffectiveRemoves ==
    Quiescent =>
        /\ GetTotalItemCount(shards) = SumOfGetItemCount(shards, DOMAIN shards)
        /\ GetTotalItemCount(shards) = hist.assigns - hist.hits

\* C2 witness: Assigns, a Remove that lowered a count and a Remove that did
\* not have all completed, over at least two shards
C2_Witness ==
    /\ Quiescent
    /\ hist.assigns >= 2
    /\ hist.hits >= 1
    /\ hist.removes > hist.hits
    /\ GetShardCount(shards) >= 2

IsFill == cfg.BalancingMode = "fill"
IsRoundRobin == cfg.BalancingMode = "round-robin"

\* a step that pushes some shard from at most SoftCap to above SoftCap
Overflows ==
    \E id \in DOMAIN shards' :
        /\ CountOf(shards', id) > cfg.SoftCap
        /\ CountOf(shards, id) <= cfg.SoftCap

\* C3: in fill mode no shard's item_count exceeds SoftCap while fewer than
\* MaxDBCount shards are registered, and a shard is pushed above SoftCap only
\* by a step taken when MaxDBCount shards are registered and every one of them
\* has item_count >= SoftCap.
C3_FillRespectsSoftCap ==
    /\ [](phase = "ready" /\ IsFill /\ GetShardCount(shards) < cfg.MaxDBCount
            => \A id \in DOMAIN shards : shards[id].item_count <= cfg.SoftCap)
    /\ [][phase = "ready" /\ IsFill /\ Overflows
            => /\ GetShardCount(shards) = cfg.MaxDBCount
               /\ \A j \in DOMAIN shards : shards[j].item_count >= cfg.SoftCap]_vars

\* C3 witness: fill mode, only Assign calls so far, a shard above SoftCap
C3_Witness ==
    /\ phase = "ready" /\ IsFill
    /\ hist.removes = 0 /\ InFlight("remove") = 0
    /\ \E id \in DOMAIN shards : shards[id].item_count > cfg.SoftCap
    /\ cfg.MaxDBCount >= 2

\* positions of createAndRegisterNewShard after its maximum-count check
PastMaxCheck == {"c_exists", "c_open", "c_begin", "c_insert", "c_commit"}

C5_CountNeverNegative ==
    /\ \A id \in DOMAIN shards : shards[id].item_count >= 0
    /\ \A p \in Procs :
          (pc[p] = "r_ret" /\ CountOf(pre[p], loc[p].ID) = 0)
              => CountOf(shards, loc[p].ID) = 0

\* C5 witness: a second Remove on a registered shard that is still empty
C5_Witness ==
    \E p \in Procs :
        /\ pc[p] = "r_ret"
        /\ loc[p].ID \in DOMAIN pre[p]
        /\ pre[p][loc[p].ID].item_count = 0
        /\ hist.removes = 2 /\ hist.hits = 0 /\ hist.assigns = 0
        /\ DOMAIN shards = {loc[p].ID}

\* i has the lowest item_count of t, the lowest shard_id among equals
IsLeastLoadedIn(t, i) ==
    /\ i \in DOMAIN t
    /\ \A j \in DOMAIN t :
          \/ t[i].item_count < t[j].item_count
          \/ t[i].item_count = t[j].item_count /\ i <= j

\* t1 is t0 with one more item on shard i and nothing else changed
OnlyIncremented(t0, t1, i) ==
    /\ DOMAIN t1 = DOMAIN t0
    /\ i \in DOMAIN t0
    /\ \A j \in DOMAIN t0 :
          t1[j] = IF j = i THEN [t0[j] EXCEPT !.item_count = @ + 1] ELSE t0[j]

AllAtCap(t) == \A j \in DOMAIN t : t[j].item_count >= cfg.SoftCap

\* max(shard_id) + 1 > MaxDBCount - 1
NoNextId(t) == \E j \in DOMAIN t : j + 1 > cfg.MaxDBCount - 1

\* C6: on a constructed Sharder whose metadata store works, every
\* AssignItemToShard call returns without error the id of a registered shard
\* whose item_count it raised by exactly 1; in fill mode, when every shard is at
\* or above SoftCap and max(shard_id)+1 > MaxDBCount-1, it increments the shard
\* with the lowest item_count, lowest shard_id among equals.
C6_AssignSucceeds ==
    \A p \in Procs :
        pc[p] = "a_ret" =>
            /\ ~loc[p].err
            /\ loc[p].ret \in DOMAIN shards
            /\ CountOf(shards, loc[p].ret) = CountOf(pre[p], loc[p].ret) + 1
            /\ (IsFill /\ AllAtCap(pre[p]) /\ NoNextId(pre[p]))
                  => /\ IsLeastLoadedIn(pre[p], loc[p].ret)
                     /\ OnlyIncremented(pre[p], shards, loc[p].ret)

\* C6 witness: fill mode, all shards at or above SoftCap, no id left, and the
\* call has saturated a shard other than shard 0
C6_Witness ==
    \E p \in Procs :
        /\ pc[p] = "a_ret" /\ IsFill
        /\ AllAtCap(pre[p]) /\ NoNextId(pre[p])
        /\ loc[p].ret # 0
        /\ shards[loc[p].ret].item_count > cfg.SoftCap

\* C7: in fill mode, whenever some registered shard has item_count < SoftCap,
\* AssignItemToShard returns the lowest shard_id among those shards and
\* increments that shard only.
C7_FillPicksLowestIdBelowCap ==
    \A p \in Procs :
        (pc[p] = "a_ret" /\ IsFill /\ ~AllAtCap(pre[p])) =>
            /\ loc[p].ret \in DOMAIN pre[p]
            /\ pre[p][loc[p].ret].item_count < cfg.SoftCap
            /\ \A j \in DOMAIN pre[p] :
                  pre[p][j].item_count < cfg.SoftCap => loc[p].ret <= j
            /\ OnlyIncremented(pre[p], shards, loc[p].ret)

\* C7 witness: the call picked a shard below SoftCap although a shard with a
\* higher id held fewer items
C7_Witness ==
    \E p \in Procs :
        /\ pc[p] = "a_ret" /\ IsFill /\ ~AllAtCap(pre[p])
        /\ \E j \in DOMAIN pre[p] :
              /\ j > loc[p].ret
              /\ pre[p][j].item_count < pre[p][loc[p].ret].item_count

\* only Assign calls have been made so far
OnlyAssigns == hist.removes = 0 /\ InFlight("remove") = 0

\* C8: in fill mode, when no registered shard has item_count < SoftCap and
\* max(shard_id)+1 <= MaxDBCount-1, AssignItemToShard registers exactly one new
\* shard with id max(shard_id)+1, leaves it with item_count 1 and returns that
\* id.  Example: dynamic generation, SoftCap 2, MaxDBCount 5 (or any value
\* from 2 up): construction leaves one shard, the first two calls return 0 and the third creates and
\* returns shard 1.
C8_FillCreatesNextShard ==
    /\ \A p \in Procs :
          (pc[p] = "a_ret" /\ IsFill /\ AllAtCap(pre[p]) /\ ~NoNextId(pre[p])) =>
              LET n == 1 + CHOOSE m \in DOMAIN pre[p] :
                               \A j \in DOMAIN pre[p] : j <= m
              IN /\ DOMAIN shards = DOMAIN pre[p] \cup {n}
                 /\ n \notin DOMAIN pre[p]
                 /\ loc[p].ret = n
                 /\ shards[n].item_count = 1
                 /\ \A j \in DOMAIN pre[p] : shards[j] = pre[p][j]
    /\ (phase = "ready" /\ IsFill /\ cfg.GenerationMode = "dynamic"
            /\ cfg.SoftCap = 2 /\ OnlyAssigns) =>
          /\ (hist.assigns = 0 /\ InFlight("assign") = 0)
                => DOMAIN shards = {0} /\ shards[0].item_count = 0
          /\ \A p \in Procs :
                pc[p] = "a_ret" =>
                    /\ hist.assigns \in {1, 2} => loc[p].ret = 0
                    /\ hist.assigns = 3 =>
                          /\ loc[p].ret = 1
                          /\ DOMAIN shards = {0, 1}
                          /\ shards[0].item_count = 2
                          /\ shards[1].item_count = 1

\* C8 witness: the third Assign of the example has created and returned shard 1
C8_Witness ==
    \E p \in Procs :
        /\ pc[p] = "a_ret" /\ IsFill /\ cfg.GenerationMode = "dynamic"
        /\ cfg.SoftCap = 2 /\ cfg.MaxDBCount = TestMaxDBCount
        /\ OnlyAssigns /\ hist.assigns = 3
        /\ AllAtCap(pre[p]) /\ ~NoNextId(pre[p])
        /\ loc[p].ret = 1

\* C9: in round-robin mode AssignItemToShard increments the shard with the
\* lowest item_count, lowest shard_id among equals, whatever SoftCap is; so
\* from K shards with equal counts, N <= K calls in a row land on N distinct
\* shards, each of which receives exactly one item.
C9_RoundRobinPicksLeastLoaded ==
    /\ \A p \in Procs :
          (pc[p] = "a_ret" /\ IsRoundRobin) =>
              /\ IsLeastLoadedIn(pre[p], loc[p].ret)
              /\ OnlyIncremented(pre[p], shards, loc[p].ret)
    /\ (phase = "ready" /\ IsRoundRobin /\ hist.runN >= 1
            /\ hist.runN <= GetShardCount(shards)) =>
          /\ Cardinality(hist.runIds) = hist.runN
          /\ \A i \in DOMAIN shards :
                shards[i].item_count =
                    hist.runBase + (IF i \in hist.runIds THEN 1 ELSE 0)

\* C9 witness: two shards, both already at SoftCap, then two calls in a row:
\* each shard has received one more item
C9_Witness ==
    /\ phase = "ready" /\ IsRoundRobin
    /\ GetShardCount(shards) = 2
    /\ hist.runN = 2 /\ hist.runBase = cfg.SoftCap
    /\ \A i \in DOMAIN shards : shards[i].item_count = cfg.SoftCap + 1

\* C10: in round-robin mode no call registers a shard: the registered ids stay
\* those left by construction, and with dynamic generation only shard 0 exists.
C10_RoundRobinNeverCreates ==
    /\ [][phase = "ready" /\ IsRoundRobin
             => DOMAIN shards' = DOMAIN shards]_vars
    /\ [](phase = "ready" /\ IsRoundRobin /\ cfg.GenerationMode = "dynamic"
             => DOMAIN shards = {0})

\* C10 witness: round-robin with dynamic generation and room for more shards:
\* shard 0 alone, above SoftCap, after Assign and Remove calls
C10_Witness ==
    /\ phase = "ready" /\ IsRoundRobin /\ cfg.GenerationMode = "dynamic"
    /\ cfg.MaxDBCount >= 2
    /\ hist.removes >= 1
    /\ DOMAIN shards = {0}
    /\ shards[0].item_count > cfg.SoftCap

\* ----------------------------------------------------------- construction
Dynamic(a) == WithDefaults(a).GenerationMode = "dynamic"
OnStartup(a) == WithDefaults(a).GenerationMode = "on-startup"

\* C11: for every valid configuration with GenerationMode dynamic, MaxDBCount
\* 1 included, NewSharder over an empty store succeeds and leaves exactly one
\* record, shard 0 with item_count 0.
C11_DynamicLeavesShardZero ==
    (ValidConfig(c) /\ Dynamic(c) /\ env.store0 = EmptyStore) =>
        /\ pc[Main] # "ns_fail"
        /\ pc[Main] = "ns_ok" =>
              /\ DOMAIN shards = {0}
              /\ shards[0].item_count = 0

\* C11 witness of the divergence: MaxDBCount 1, NewSharder is returning the
\* error of its second createAndRegisterNewShard(0) with shard 0 registered
C11_Witness ==
    /\ ValidConfig(c) /\ Dynamic(c) /\ c.MaxDBCount = 1
    /\ pc[Main] = "ns_fail"
    /\ DOMAIN shards = {0}

\* C12: with GenerationMode on-startup, NewSharder over a store holding n
\* records ends with records for shards 0 .. MaxDBCount-1 when n < MaxDBCount,
\* having created exactly the ids n .. MaxDBCount-1 with item_count 0, and
\* creates nothing when n >= MaxDBCount; no existing record is ever removed or
\* modified.
C12_OnStartupFillsUp ==
    (ValidConfig(c) /\ OnStartup(c)) =>
        LET n == CountRows(env.store0) IN
        /\ pc[Main] # "ns_fail"
        /\ \A i \in DOMAIN env.store0 :
              i \in DOMAIN shards /\ shards[i] = env.store0[i]
        /\ DOMAIN shards \subseteq DOMAIN env.store0 \cup (n..(c.MaxDBCount - 1))
        /\ \A i \in DOMAIN shards \ DOMAIN env.store0 : shards[i].item_count = 0
        /\ (pc[Main] \in {"ns_ok", "ns_done"} /\ n < c.MaxDBCount) =>
              /\ phase \in {"setup", "ready"}
              /\ DOMAIN shards = 0..(c.MaxDBCount - 1)
        /\ n >= c.MaxDBCount => shards = env.store0 /\ files = DOMAIN env.store0

\* C12 witness: two records with items found, MaxDBCount 3: construction is
\* over, shard 2 was added and the two old records are as they were
C12_Witness ==
    /\ OnStartup(c) /\ c.MaxDBCount = 3
    /\ CountRows(env.store0) = 2
    /\ env.store0[0].item_count = 2 /\ env.store0[1].item_count = 1
    /\ phase = "ready"
    /\ DOMAIN shards = {0, 1, 2}
    /\ shards[2].item_count = 0 /\ shards[0] = env.store0[0]

\* ascending ids, each taken SoftCap times: the id the k-th call returns
FillOrder(k, cap) == (k - 1) \div cap

\* C13: fill mode, SoftCap 2, MaxDBCount 5, on-startup generation over an
\* empty store: construction leaves 5 shards with item_count 0; the first 10
\* AssignItemToShard calls return 0,0,1,1,2,2,3,3,4,4 and leave every shard
\* at 2; the 11th call returns 0 and leaves shard 0 at 3, all others at 2.
C13_FillTrace ==
    c = TestConfig =>
        /\ pc[Main] = "ns_ok" =>
              /\ DOMAIN shards = 0..4
              /\ \A i \in 0..4 : shards[i].item_count = 0
        /\ \A p \in Procs :
              pc[p] = "a_ret" =>
                  /\ ~loc[p].err
                  /\ hist.assigns <= 10 =>
                        loc[p].ret = FillOrder(hist.assigns, 2)
                  /\ hist.assigns = 10 =>
                        \A i \in 0..4 : shards[i].item_count = 2
                  /\ hist.assigns = 11 =>
                        /\ loc[p].ret = 0
                        /\ shards[0].item_count = 3
                        /\ \A i \in 1..4 : shards[i].item_count = 2

\* C13 witness: the 11th call of the trace is returning shard 0
C13_Witness ==
    /\ c = TestConfig
    /\ hist.assigns = 11
    /\ \E p \in Procs : pc[p] = "a_ret" /\ loc[p].ret = 0
    /\ shards[0].item_count = 3 /\ shards[4].item_count = 2

\* ------------------------------------------------------ Assign and Remove
\* goroutine p is returning from the Remove of the id that the call before
\* it, an Assign, returned
RoundTripDone(p) == pc[p] = "r_ret" /\ hist.trip /\ hist.last = p

\* C14: in either balancing mode, AssignItemToShard returning id followed
\* immediately by RemoveItemFromShard(id) leaves GetItemCount(id) at the value
\* it had before the Assign (0 for a shard the Assign registered) and every
\* other shard's item_count unchanged.
C14_AssignRemoveRoundTrip ==
    \A p \in Procs :
        RoundTripDone(p) =>
            /\ GetItemCount(shards, loc[p].ID).val
                   = GetItemCount(hist.tripPre, loc[p].ID).val
            /\ ~GetItemCount(shards, loc[p].ID).err
            /\ DOMAIN hist.tripPre \subseteq DOMAIN shards
            /\ \A i \in DOMAIN shards \ {loc[p].ID} :
                  /\ i \in DOMAIN hist.tripPre
                  /\ shards[i].item_count = hist.tripPre[i].item_count

\* C14 witness: two shards with items, an Assign and then the Remove of the
\* id it returned, a shard that held items before
C14_Witness ==
    \E p \in Procs :
        /\ RoundTripDone(p)
        /\ GetShardCount(shards) >= 2
        /\ loc[p].ID \in DOMAIN hist.tripPre
        /\ \A i \in DOMAIN hist.tripPre : hist.tripPre[i].item_count >= 1

\* C15: RemoveItemFromShard(id) for an id that is not registered returns no
\* error and leaves the whole table unchanged; on a registered id it changes
\* only that shard's item_count and removes no record.
C15_RemoveTouchesOneCount ==
    \A p \in Procs :
        pc[p] = "r_ret" =>
            LET id == loc[p].ID IN
            /\ ~loc[p].err
            /\ id \notin DOMAIN pre[p] => shards = pre[p]
            /\ id \in DOMAIN pre[p] =>
                  /\ DOMAIN shards = DOMAIN pre[p]
                  /\ shards[id].db_path = pre[p][id].db_path
                  /\ \A i \in DOMAIN shards \ {id} : shards[i] = pre[p][i]

\* C15 witness: shards with items are registered and the Remove of an id that
\* is not among them is returning
C15_Witness ==
    \E p \in Procs :
        /\ pc[p] = "r_ret"
        /\ loc[p].ID \notin DOMAIN shards
        /\ GetShardCount(shards) >= 2
        /\ \A i \in DOMAIN shards : shards[i].item_count >= 1

\* C16: whenever AssignItemToShard or RemoveItemFromShard returns an error,
\* the table is exactly as it was before the call: the same registered shards
\* and the same item_count for each.
C16_ErrorLeavesStoreUnchanged ==
    \A p \in Procs :
        (pc[p] \in {"a_ret", "r_ret"} /\ loc[p].err) => shards = pre[p]

\* C16 witness of the divergence: an Assign is returning an error and the
\* shard it registered on the way is in the table with item_count 0
C16_Witness ==
    \E p \in Procs :
        /\ pc[p] = "a_ret" /\ loc[p].err
        /\ loc[p].nextShardID \in DOMAIN shards \ DOMAIN pre[p]
        /\ shards[loc[p].nextShardID].item_count = 0

\* the configurations C17 names: an empty BasePath, a cap or a maximum that is
\* not positive, a mode that is neither unset nor one of the two known ones
Unacceptable(a) ==
    \/ a.BasePath = ""
    \/ a.SoftCap <= 0
    \/ a.MaxDBCount <= 0
    \/ a.GenerationMode \notin {"", "dynamic", "on-startup"}
    \/ a.BalancingMode \notin {"", "fill", "round-robin"}

C18_IdsContiguous ==
    /\ [](/\ DOMAIN shards = 0..(GetShardCount(shards) - 1)
          /\ ~GetAllShards(shards, shards).err
          /\ DOMAIN GetAllShards(shards, shards).m = DOMAIN shards)
    /\ [][~GetAllShards(shards, shards').err]_vars

\* C18 witness: three shards, the last two registered by Assign calls
C18_Witness ==
    /\ cfg.GenerationMode = "dynamic" /\ phase = "ready"
    /\ DOMAIN shards = {0, 1, 2}
    /\ \A p \in Procs : pc[p] = "idle"

\* the shards whose item_count differs between the tables t0 and t1
Changed(t0, t1) ==
    {i \in DOMAIN t0 \cup DOMAIN t1 : CountOf(t0, i) # CountOf(t1, i)}

\* C19: the set of registered shards only grows: no step of Assign, Remove, a
\* lookup or Close deletes a record or changes the db_path of a registered
\* shard; and a successful AssignItemToShard changes the item_count of exactly
\* one shard, the returned one.
C19_RecordsOnlyGrow ==
    /\ [][\A i \in DOMAIN shards :
              i \in DOMAIN shards' /\ shards'[i].db_path = shards[i].db_path]_vars
    /\ [](\A p \in Procs :
              (pc[p] = "a_ret" /\ ~loc[p].err) =>
                  /\ loc[p].ret \in DOMAIN shards
                  /\ Changed(pre[p], shards) = {loc[p].ret})

\* C19 witness: after Assign calls that registered a shard and Remove calls,
\* the Sharder is closed and both records are there
C19_Witness ==
    /\ metaDB = "closed" /\ phase = "ready"
    /\ cfg.GenerationMode = "dynamic"
    /\ DOMAIN shards = {0, 1}
    /\ hist.removes >= 1
    /\ shards[0].item_count = 0

\* --------------------------------------------------------------- locking
\* the positions inside createAndRegisterNewShard
CreateSteps == {"c_count"} \cup PastMaxCheck

\* C20: every execution of createAndRegisterNewShard, whether reached from
\* AssignItemToShard, ensureShardExists or setUpShards, runs while the caller
\* holds the Sharder's exclusive lock for the whole check-create-register
\* sequence.
C20_CreateHoldsLock ==
    \A p \in AllProcs : pc[p] \in CreateSteps => mutexW = p

\* C20 witness of the divergence: setUpShards, on-startup, is about to INSERT
\* the record of a shard and nobody holds the lock
C20_Witness ==
    /\ pc[Main] = "c_insert"
    /\ loc[Main].cret = "su_loop_ret"
    /\ mutexW = None

\* ------------------------------------------------------------ provisioning
\* C21: createAndRegisterNewShard(id) for an id that is already registered
\* returns success and leaves the store unchanged, in every state, the state
\* where MaxDBCount shards are registered included.
C21_ExistingIdIsSuccess ==
    [][\A p \in AllProcs :
          (/\ pc[p] \in {"c_count", "c_exists"}
           /\ loc[p].shardID \in DOMAIN shards
           /\ pc'[p] # pc[p]) =>
              /\ shards' = shards
              /\ files' = files
              /\ pc'[p] \in {"c_exists", loc[p].cret}
              /\ pc'[p] = loc[p].cret => ~loc'[p].err]_vars

\* C21 witness of the divergence: two shards found, MaxDBCount 2, dynamic:
\* createAndRegisterNewShard(0) has returned the maximum-reached error to
\* setUpShards, the store being as it was found
C21_Witness ==
    /\ Dynamic(c) /\ c.MaxDBCount = 2
    /\ CountRows(env.store0) = 2
    /\ pc[Main] = "su_dyn_ret" /\ loc[Main].err /\ loc[Main].shardID = 0
    /\ shards = env.store0

\* C22: if the schema-initialization callback fails while shard id is being
\* provisioned, no record for id is inserted, removal of the file is
\* attempted, and the operation that asked for the shard (NewSharder or
\* AssignItemToShard) returns an error without changing any item_count.
C22_SchemaFailureRegistersNothing ==
    \A p \in AllProcs :
        (loc[p].schemaErr /\ pc[p] \notin CreateSteps \cup {"c_cleanup"}) =>
            /\ loc[p].err /\ loc[p].cleanup
            /\ loc[p].shardID \notin DOMAIN shards
            /\ pc[p] \in {"a_new_begin", "a_ret", "e_unlock", "su_dyn",
                          "su_dyn_ret", "su_loop_ret", "ns_fail"}
            /\ p \in Procs =>
                  /\ loc[p].ret = None
                  /\ shards = pre[p]
            /\ p = Main => \A i \in DOMAIN shards : shards[i].item_count = 0

\* C22 witness: an Assign whose new shard's callback failed is returning its
\* error; shard 0 holds its item and the file of shard 1 is gone
C22_Witness ==
    \E p \in Procs :
        /\ pc[p] = "a_ret" /\ loc[p].schemaErr /\ loc[p].err
        /\ loc[p].shardID = 1
        /\ DOMAIN shards = {0} /\ shards[0].item_count = 1
        /\ files = {0}

\* no goroutine is inside createAndRegisterNewShard
NoCreateRunning == \A p \in AllProcs : pc[p] \notin CreateSteps \cup {"c_cleanup"}

\* C23: after any createAndRegisterNewShard call returns, a shard's file
\* exists if and only if its record is registered; when registration fails
\* after the file was created, the file is cleaned up.
C23_FileIffRecord == NoCreateRunning => files = DOMAIN shards

\* C23 witness of the divergence: an Assign is returning the error of a failed
\* registration (the callback had succeeded) and the file of the shard that
\* was not registered is there
C23_Witness ==
    \E p \in Procs :
        /\ pc[p] = "a_ret" /\ loc[p].err /\ ~loc[p].schemaErr
        /\ loc[p].shardID \in files \ DOMAIN shards
        /\ env.faults = MaxFaults - 1

\* ------------------------------------------------------------ readers
\* the Assign of goroutine p has registered a new shard and not yet committed
\* its item_count of 1
Midway(p) ==
    /\ loc[p].op = "assign"
    /\ pc[p] # "a_ret"
    /\ loc[p].nextShardID \in DOMAIN shards \ DOMAIN pre[p]
    /\ shards[loc[p].nextShardID].item_count = 0

\* C24: a lookup running beside an AssignItemToShard that provisions a new
\* shard sees the state before the call or the state after it: while the new
\* shard is registered with item_count 0 no lookup holds or gets the shared
\* lock, so no GetShardCount, GetItemCount or GetTotalItemCount result comes
\* from that state.
C24_ReadersSeeNoMidwayState ==
    /\ \A p \in Procs :
          Midway(p) => mutexR = {} /\ \A q \in Procs : ~CanRLock(q)
    /\ \A q \in Procs :
          pc[q] = "g_ret" =>
              /\ \A p \in Procs : loc[p].op # "assign"
              /\ GetShardCount(pre[q]) = GetShardCount(shards)
              /\ GetTotalItemCount(pre[q]) = GetTotalItemCount(shards)
              /\ \A i \in IDs : GetItemCount(pre[q], i) = GetItemCount(shards, i)

\* C24 witness: an Assign has registered shard 1 with item_count 0 and is
\* about to set it to 1, while a lookup is still to be made
C24_Witness ==
    \E p \in Procs :
        /\ Midway(p) /\ pc[p] = "a_new_update"
        /\ loc[p].nextShardID = 1
        /\ env.reads > 0
        /\ \E q \in Procs : pc[q] = "idle"

\* ------------------------------------------------------------ progress
\* positions that ask the metadata pool for a connection: s.MetaDB.Begin and
\* s.MetaDB.QueryRow (tx.QueryRow at a_select uses the transaction's own)
PoolSteps == BeginSteps \cup (QuerySteps \ {"a_select"})

\* goroutine p holds neither the Sharder lock nor the connection
HoldsNothing(p) == mutexW # p /\ p \notin mutexR /\ conn # p

\* no goroutine is about to take the Sharder lock while holding it, or about
\* to ask the pool for a connection while its own transaction holds the only
\* one
NoSelfWait ==
    /\ \A p \in Procs : pc[p] = "idle" => HoldsNothing(p)
    /\ pc[Main] = "e_lock" => mutexW # Main /\ Main \notin mutexR
    /\ \A p \in AllProcs : pc[p] \in PoolSteps => conn # p
    /\ \A p \in AllProcs : ~(mutexW = p /\ p \in mutexR)

\* C25: every AssignItemToShard, RemoveItemFromShard and lookup that has
\* started returns, on success and on error, and has then released the lock
\* and the connection; on the way no call takes the Sharder lock it already
\* holds and none asks the one-connection pool for a connection while its
\* own transaction is open.
C25_EveryCallReturns ==
    /\ []NoSelfWait
    /\ \A p \in Procs : (pc[p] # "idle") ~> (pc[p] = "idle" /\ HoldsNothing(p))

\* C25 witness: all calls have returned, among them an Assign that left its
\* transaction, asked the pool for MAX(shard_id) and provisioned shard 1, a
\* lookup, and a call that returned an error; nothing is held
C25_Witness ==
    /\ phase = "ready"
    /\ \A p \in Procs : pc[p] = "idle" /\ HoldsNothing(p)
    /\ mutexW = None /\ mutexR = {} /\ conn = None
    /\ IsFill /\ 1 \in DOMAIN shards /\ shards[1].item_count > 0
    /\ hist.assigns = FewAssigns
    /\ env.reads = 0
    /\ env.faults < MaxFaults

\* ----------------------------------------------------- re-initialization
\* NewSharder has been called again over the store of an earlier Sharder
Restarted == env.restarts < MaxRestarts

\* C26: constructing a Sharder again with the same configuration over the
\* store an earlier Sharder left, a store holding MaxDBCount shards included,
\* succeeds and leaves every record (id, path, item_count) as it was, in both
\* generation modes.
C26_ReinitKeepsStore ==
    Restarted =>
        /\ phase # "failed"
        /\ phase # "ready" => shards = env.store0 /\ files = DOMAIN env.store0

\* C26 witness: the second NewSharder, in dynamic mode over a store that
\* holds MaxDBCount shards, has returned
C26_Witness ==
    /\ Restarted
    /\ Dynamic(c)
    /\ CountRows(env.store0) = cfg.MaxDBCount
    /\ pc[Main] = "ns_done"

====
